---------------------------- MODULE Spec2Model ----------------------------
(***************************************************************************)
(* Model of the time-series decomposition pipeline of src/asqp.py:         *)
(* remove_irregularities (moving-average smoother), perform_least_squares  *)
(* (line fit), remove_trend (detrender) and is_seasonal (12-bucket         *)
(* seasonal aggregator).                                                   *)
(*                                                                         *)
(* NumPy arrays live in a heap (a sequence of arrays, an array's identity  *)
(* is its position), so that copies, in-place stores and aliasing are      *)
(* visible.  float64 values are modelled as exact rationals <<num, den>>   *)
(* in lowest terms with den > 0, plus NaN == <<0, 0>>; rounding error is   *)
(* abstracted away.  int64 arrays hold TLA+ integers.                      *)
(***************************************************************************)
EXTENDS Integers, Sequences, FiniteSets

(***************************************************************************)
(* Bounds of the model.                                                    *)
(***************************************************************************)
MaxLen == 4
MaxVal == 1
MaxN == 13
MaxBase == 1
MaxSlope == 1
MaxWidth == 2
MaxNegWidth == 2
MaxPeriod == 2
SpikeAmp == 10

(***************************************************************************)
(* float64 arithmetic, as exact rationals.                                 *)
(***************************************************************************)
Abs(n) == IF n < 0 THEN -n ELSE n

RECURSIVE GCD(_, _)
GCD(a, b) == IF b = 0 THEN a ELSE GCD(b, a % b)

NaN == <<0, 0>>

IsNaN(q) == q[2] = 0

Rat(n, d) ==
    IF d = 0 THEN NaN
    ELSE LET g == GCD(Abs(n), Abs(d))
             s == IF d < 0 THEN -1 ELSE 1
         IN  <<s * (n \div g), s * (d \div g)>>

Float(n) == <<n, 1>>

\* sums over the least common denominator and products with the common
\* factors cancelled first keep the integers small
FAdd(p, q) ==
    IF IsNaN(p) \/ IsNaN(q) THEN NaN
    ELSE LET g == GCD(p[2], q[2])
         IN  Rat(p[1] * (q[2] \div g) + q[1] * (p[2] \div g), (p[2] \div g) * q[2])

FNeg(p) == <<0 - p[1], p[2]>>

FSub(p, q) == FAdd(p, FNeg(q))

FMul(p, q) ==
    IF IsNaN(p) \/ IsNaN(q) THEN NaN
    ELSE LET g1 == GCD(Abs(p[1]), q[2])
             g2 == GCD(Abs(q[1]), p[2])
         IN  <<(p[1] \div g1) * (q[1] \div g2), (p[2] \div g2) * (q[2] \div g1)>>

\* 0/0 is nan; a division of a non-zero value by zero (inf) does not occur
FDiv(p, q) ==
    IF IsNaN(p) \/ IsNaN(q) \/ q[1] = 0 THEN NaN
    ELSE FMul(p, IF q[1] < 0 THEN <<0 - q[2], 0 - q[1]>> ELSE <<q[2], q[1]>>)

FLess(p, q) == ~IsNaN(p) /\ ~IsNaN(q) /\ FSub(p, q)[1] < 0

(***************************************************************************)
(* NumPy arrays: [dtype, data].  Python indices are 0-based.               *)
(***************************************************************************)
IntArray(s) == [dtype |-> "int64", data |-> s]

FloatArray(s) == [dtype |-> "float64", data |-> s]

Size(a) == Len(a.data)

\* a[i] read as a float
Elem(a, i) == IF a.dtype = "int64" THEN Float(a.data[i + 1]) ELSE a.data[i + 1]

\* the values of an array as a sequence of floats
AsFloats(a) == [j \in 1..Size(a) |-> Elem(a, j - 1)]

\* mutant: np.asarray(a, dtype=float), which copies only when it must convert
np_asarray_float(h, id) ==
    IF h[id].dtype = "float64" THEN [heap |-> h, ret |-> id]
    ELSE [heap |-> Append(h, FloatArray(AsFloats(h[id]))), ret |-> Len(h) + 1]

\* np.array(a, copy=True).astype(float): a new float64 array in the heap
np_array_copy_astype_float(h, id) ==
    [heap |-> Append(h, FloatArray(AsFloats(h[id]))), ret |-> Len(h) + 1]

\* np.ones(n, dtype=float): a new float64 array in the heap
np_ones(h, n) ==
    [heap |-> Append(h, FloatArray([j \in 1..n |-> Float(1)])), ret |-> Len(h) + 1]

\* arr[i] = v, in place
SetItem(h, id, i, v) == [h EXCEPT ![id].data[i + 1] = v]

\* Python's normalisation of a slice bound k for a sequence of length n
SliceBound(k, n) ==
    IF k < 0 THEN (IF k + n < 0 THEN 0 ELSE k + n)
    ELSE (IF k > n THEN n ELSE k)

\* the indices selected by a[start:stop:step], step > 0
SliceIndices(n, start, stop, step) ==
    {k \in SliceBound(start, n)..(SliceBound(stop, n) - 1) :
        (k - SliceBound(start, n)) % step = 0}

RECURSIVE SumOver(_, _)
SumOver(a, idx) ==
    IF idx = {} THEN Float(0)
    ELSE LET k == CHOOSE x \in idx : \A y \in idx : x <= y
         IN  FAdd(Elem(a, k), SumOver(a, idx \ {k}))

\* a[start:stop:step].sum()
SliceSum(a, start, stop, step) ==
    SumOver(a, SliceIndices(Size(a), start, stop, step))

\* a[start:stop].mean(); the mean of an empty slice is nan
SliceMean(a, start, stop) ==
    LET idx == SliceIndices(Size(a), start, stop, 1)
    IN  IF idx = {} THEN NaN
        ELSE FDiv(SumOver(a, idx), Float(Cardinality(idx)))

\* mutant: the last index of the maximum
RECURSIVE ArgMaxLastFrom(_, _, _)
ArgMaxLastFrom(a, i, best) ==
    IF i >= Size(a) THEN best
    ELSE IF FLess(Elem(a, i), Elem(a, best))
         THEN ArgMaxLastFrom(a, i + 1, best)
         ELSE ArgMaxLastFrom(a, i + 1, i)

np_argmax_last(a) == ArgMaxLastFrom(a, 1, 0)

\* np.argmax(a): the first index of the maximum; a nan compares as the maximum
RECURSIVE ArgMaxFrom(_, _, _)
ArgMaxFrom(a, i, best) ==
    IF i >= Size(a) THEN best
    ELSE IF IsNaN(Elem(a, best)) THEN best
    ELSE IF IsNaN(Elem(a, i)) \/ FLess(Elem(a, best), Elem(a, i))
         THEN ArgMaxFrom(a, i + 1, i)
         ELSE ArgMaxFrom(a, i + 1, best)

np_argmax(a) == ArgMaxFrom(a, 1, 0)

\* mutant: x = 1 .. n
np_arange_from_one(n) == [j \in 1..n |-> j]

\* np.arange(n)
np_arange(n) == [j \in 1..n |-> j - 1]

RECURSIVE DotFrom(_, _, _)
DotFrom(u, v, j) ==
    IF j > Len(u) THEN Float(0)
    ELSE FAdd(FMul(u[j], v[j]), DotFrom(u, v, j + 1))

\* the inner product of two equally long sequences of floats
Dot(u, v) == DotFrom(u, v, 1)

\* mutant: the normal equations solved whatever the rank of A
lstsq_full_rank_only(x, y) ==
    LET n    == Len(y)
        xf   == [j \in 1..n |-> Float(x[j])]
        one  == [j \in 1..n |-> Float(1)]
        Sx   == Dot(xf, one)
        Sy   == Dot(one, y)
        det  == FSub(FMul(Float(n), Dot(xf, xf)), FMul(Sx, Sx))
        m    == FDiv(FSub(FMul(Float(n), Dot(xf, y)), FMul(Sx, Sy)), det)
    IN  <<m, FDiv(FSub(Sy, FMul(m, Sx)), Float(n))>>

(***************************************************************************)
(* np.linalg.lstsq(A, y, rcond=None)[0] for A = vstack([x, ones]).T: the   *)
(* minimum-norm least-squares solution (m, b) of x*m + b ~ y.  With full   *)
(* column rank it is the solution of the normal equations; with all rows   *)
(* of A equal (one row, here) it is the pseudo-inverse solution; with no   *)
(* rows lstsq returns zeros.                                               *)
(***************************************************************************)
lstsq(x, y) ==
    LET n    == Len(y)
        xf   == [j \in 1..n |-> Float(x[j])]
        one  == [j \in 1..n |-> Float(1)]
        Sx   == Dot(xf, one)
        Sxx  == Dot(xf, xf)
        Sy   == Dot(one, y)
        Sxy  == Dot(xf, y)
        det  == FSub(FMul(Float(n), Sxx), FMul(Sx, Sx))
        m    == FDiv(FSub(FMul(Float(n), Sxy), FMul(Sx, Sy)), det)
        ybar == FDiv(Sy, Float(n))
        nrm  == FAdd(FMul(xf[1], xf[1]), Float(1))
    IN  IF n = 0 THEN <<Float(0), Float(0)>>
        ELSE IF det = Float(0)
             THEN <<FDiv(FMul(ybar, xf[1]), nrm), FDiv(ybar, nrm)>>
             ELSE <<m, FDiv(FSub(Sy, FMul(m, Sx)), Float(n))>>

(***************************************************************************)
(* perform_least_squares(y): <<slope, intercept>> of the line fitted to y  *)
(* against x = 0 .. len(y)-1.                                              *)
(***************************************************************************)
\* mutant: the two results unpacked in the wrong order
perform_least_squares_swapped(y) ==
    LET mb == lstsq(np_arange(Size(y)), AsFloats(y)) IN <<mb[2], mb[1]>>

perform_least_squares(y) == lstsq(np_arange(Size(y)), AsFloats(y))

(***************************************************************************)
(* remove_irregularities(ts, width): the loop over i, then the function.   *)
(* h is the heap, ts and sm are array identities.                          *)
(***************************************************************************)
\* mutant: the window is read from the array being written
RECURSIVE smooth_loop_running(_, _, _, _, _, _)
smooth_loop_running(h, ts, sm, i, width, num_rows) ==
    IF i >= num_rows THEN h
    ELSE LET start == IF i - width > 0 THEN i - width ELSE 0
             end   == IF i + width + 1 < num_rows THEN i + width + 1 ELSE num_rows
         IN  smooth_loop_running(SetItem(h, sm, i, SliceMean(h[sm], start, end)),
                                 ts, sm, i + 1, width, num_rows)

RECURSIVE smooth_loop(_, _, _, _, _, _)
smooth_loop(h, ts, sm, i, width, num_rows) ==
    IF i >= num_rows THEN h
    ELSE LET start == IF i - width > 0 THEN i - width ELSE 0
             end   == IF i + width + 1 < num_rows THEN i + width + 1 ELSE num_rows
         IN  smooth_loop(SetItem(h, sm, i, SliceMean(h[ts], start, end)),
                         ts, sm, i + 1, width, num_rows)

remove_irregularities(h, ts, width) ==
    LET c == np_array_copy_astype_float(h, ts)
    IN  [heap |-> smooth_loop(c.heap, ts, c.ret, 0, width, Size(c.heap[c.ret])),
         ret  |-> c.ret]

(***************************************************************************)
(* remove_trend(ts, width)                                                 *)
(***************************************************************************)
\* mutant: the offset is the slope itself, not the slope times i
RECURSIVE detrend_loop_const_offset(_, _, _, _, _)
detrend_loop_const_offset(h, cl, i, m, size) ==
    IF i >= size THEN h
    ELSE detrend_loop_const_offset(SetItem(h, cl, i, FSub(Elem(h[cl], i), m)),
                                   cl, i + 1, m, size)

RECURSIVE detrend_loop(_, _, _, _, _)
detrend_loop(h, cl, i, m, size) ==
    IF i >= size THEN h
    ELSE LET off_set == FMul(m, Float(i))
         IN  detrend_loop(SetItem(h, cl, i, FSub(Elem(h[cl], i), off_set)),
                          cl, i + 1, m, size)

\* mutant: the offsets are subtracted from the smoothed series
remove_trend_of_smoothed(h, ts, width) ==
    LET sm == remove_irregularities(h, ts, width)
        mb == perform_least_squares(sm.heap[sm.ret])
        c  == np_array_copy_astype_float(sm.heap, sm.ret)
    IN  [heap |-> detrend_loop(c.heap, c.ret, 0, mb[1], Size(c.heap[ts])),
         ret  |-> c.ret]

remove_trend(h, ts, width) ==
    LET sm == remove_irregularities(h, ts, width)
        mb == perform_least_squares(sm.heap[sm.ret])
        c  == np_array_copy_astype_float(sm.heap, ts)
    IN  [heap |-> detrend_loop(c.heap, c.ret, 0, mb[1], Size(c.heap[ts])),
         ret  |-> c.ret]

(***************************************************************************)
(* is_seasonal(ts, width): twelve buckets, hard-coded.                     *)
(***************************************************************************)
Months == 12

\* mutant: only the first twelve steps are bucketed
RECURSIVE bucket_loop_first_year(_, _, _, _)
bucket_loop_first_year(h, tl, mo, i) ==
    IF i >= Months THEN h
    ELSE LET data == SliceSum(h[tl], i, Months, Months)
         IN  bucket_loop_first_year(SetItem(h, mo, i, data), tl, mo, i + 1)

RECURSIVE bucket_loop(_, _, _, _)
bucket_loop(h, tl, mo, i) ==
    IF i >= Months THEN h
    ELSE LET data == SliceSum(h[tl], i, Size(h[tl]), Months)
         IN  bucket_loop(SetItem(h, mo, i, data), tl, mo, i + 1)

is_seasonal(h, ts, width) ==
    LET tl == remove_trend(h, ts, width)
        mo == np_ones(tl.heap, Months)
        h2 == bucket_loop(mo.heap, tl.ret, mo.ret, 0)
    IN  [heap |-> h2, ret |-> mo.ret, index_of |-> np_argmax(h2[mo.ret])]

(***************************************************************************)
(* The caller: one input series, and calls of the four functions on it.    *)
(*   heap  the NumPy arrays alive; heap[InputId] is the caller's series    *)
(*   call  the call just made and what it returned ("none": no call yet,   *)
(*         or the results of the last one were dropped); arg holds the     *)
(*         values of the series as they were passed                        *)
(***************************************************************************)
VARIABLES heap, call

vars == <<heap, call>>

InputId == 1

\* every series of length 0 .. MaxLen over 0 .. MaxVal
ShortSeries == UNION {[1..n -> 0..MaxVal] : n \in 0..MaxLen}

\* a base level b, a linear trend m and a spike of height a at phase r of
\* every k-th step
Seasonal(n, b, m, k, r, a) ==
    [i \in 1..n |-> b + m * (i - 1) + (IF (i - 1) % k = r THEN a ELSE 0)]

\* no spike, or one at phase 1 of every 2nd or every 12th step
Spikes == {<<1, 0, 0>>} \cup {<<k, 1, SpikeAmp>> : k \in {2, Months}}

TrendSeries ==
    {Seasonal(n, b, m, sp[1], sp[2], sp[3]) :
        n \in 0..MaxN, b \in (0 - MaxBase)..MaxBase,
        m \in (0 - MaxSlope)..MaxSlope, sp \in Spikes}

Series == ShortSeries \cup TrendSeries

\* width arguments; remove_irregularities is also called with negative ones
Widths == 0..MaxWidth

AnyWidths == (0 - MaxNegWidth)..MaxWidth

\* a third positional argument (a period) is passed, or not
PeriodArgs == {<<>>} \cup {<<p>> : p \in 1..MaxPeriod}

NoCall ==
    [op |-> "none", arg |-> <<>>, width |-> 0, period |-> <<>>,
     status |-> "none", ret |-> 0, m |-> Float(0), b |-> Float(0),
     index_of |-> 0]

\* the caller's series: an int64 array (delay counts), or a float64 array
\* (here of halves)
Inputs ==
    {IntArray(s) : s \in Series}
        \cup {FloatArray([j \in 1..Len(s) |-> Rat(s[j], 2)]) : s \in ShortSeries}

Init ==
    /\ \E a \in Inputs : heap = <<a>>
    /\ call = NoCall

\* smoothed = remove_irregularities(ts, width)
RemoveIrregularities ==
    /\ call.op = "none"
    /\ \E w \in AnyWidths :
         LET r == remove_irregularities(heap, InputId, w)
         IN  /\ heap' = r.heap
             /\ call' = [NoCall EXCEPT !.op = "remove_irregularities",
                                       !.arg = AsFloats(heap[InputId]),
                                       !.width = w, !.status = "ok",
                                       !.ret = r.ret]

\* m, b = perform_least_squares(ts)
PerformLeastSquares ==
    /\ call.op = "none"
    /\ LET mb == perform_least_squares(heap[InputId])
       IN  call' = [NoCall EXCEPT !.op = "perform_least_squares",
                                  !.arg = AsFloats(heap[InputId]),
                                  !.status = "ok", !.m = mb[1], !.b = mb[2]]
    /\ UNCHANGED heap

\* cleaned = remove_trend(ts, width)
RemoveTrend ==
    /\ call.op = "none"
    /\ \E w \in Widths :
         LET r == remove_trend(heap, InputId, w)
         IN  /\ heap' = r.heap
             /\ call' = [NoCall EXCEPT !.op = "remove_trend",
                                       !.arg = AsFloats(heap[InputId]),
                                       !.width = w, !.status = "ok",
                                       !.ret = r.ret]

\* months, index_of = is_seasonal(ts, width [, period]); the function takes
\* two arguments, a call passing a third raises TypeError before its body runs
IsSeasonal ==
    /\ call.op = "none"
    /\ \E w \in Widths, p \in PeriodArgs :
         IF p # <<>>
         THEN /\ call' = [NoCall EXCEPT !.op = "is_seasonal",
                                        !.arg = AsFloats(heap[InputId]),
                                        !.width = w, !.period = p,
                                        !.status = "TypeError"]
              /\ UNCHANGED heap
         ELSE LET r == is_seasonal(heap, InputId, w)
              IN  /\ heap' = r.heap
                  /\ call' = [NoCall EXCEPT !.op = "is_seasonal",
                                            !.arg = AsFloats(heap[InputId]),
                                            !.width = w, !.status = "ok",
                                            !.ret = r.ret,
                                            !.index_of = r.index_of]

\* the caller drops the results; only its own series stays alive
Discard ==
    /\ call.op # "none"
    /\ heap' = <<heap[InputId]>>
    /\ call' = NoCall

Next ==
    \/ RemoveIrregularities
    \/ PerformLeastSquares
    \/ RemoveTrend
    \/ IsSeasonal
    \/ Discard

Spec == Init /\ [][Next]_vars

(***************************************************************************)
(* Reference definitions the properties are stated with.  They are written *)
(* from the mathematical statement, not from the loops above.              *)
(***************************************************************************)
RECURSIVE RefSum(_, _)
\* the sum of f[j] over j in S
RefSum(f, S) ==
    IF S = {} THEN Float(0)
    ELSE LET j == CHOOSE k \in S : TRUE
         IN  FAdd(f[j], RefSum(f, S \ {j}))

\* s[i], 0-based, of a sequence of floats
At(s, i) == s[i + 1]

\* the indices of s within width steps of i
Window(s, i, width) ==
    {j \in 0..(Len(s) - 1) : j >= i - width /\ j <= i + width}

\* the mean of s over the window around i
WindowMean(s, i, width) ==
    FDiv(RefSum([j \in Window(s, i, width) |-> At(s, j)], Window(s, i, width)),
         Float(Cardinality(Window(s, i, width))))

\* s smoothed
Smoothed(s, width) == [k \in 1..Len(s) |-> WindowMean(s, k - 1, width)]

\* the mean of a non-empty sequence of floats
MeanOf(s) == FDiv(RefSum(s, 1..Len(s)), Float(Len(s)))

\* the ordinary-least-squares slope of y against x = 0 .. Len(y)-1, Len(y) >= 2:
\* the covariance of x and y over the variance of x
OlsSlope(y) ==
    LET n    == Len(y)
        xbar == Rat(n - 1, 2)
        ybar == MeanOf(y)
        dx   == [k \in 1..n |-> FSub(Float(k - 1), xbar)]
    IN  FDiv(RefSum([k \in 1..n |-> FMul(dx[k], FSub(y[k], ybar))], 1..n),
             RefSum([k \in 1..n |-> FMul(dx[k], dx[k])], 1..n))

\* s[i] = s[0] + (s[1] - s[0]) * i for every i
IsLinear(s) ==
    /\ Len(s) >= 2
    /\ \A i \in 0..(Len(s) - 1) :
         At(s, i) = FAdd(At(s, 0), FMul(FSub(At(s, 1), At(s, 0)), Float(i)))

\* the values of the array a call returned
Result == heap[call.ret].data

\* the arrays a call leaves behind the caller's series, in allocation order
SmoothedId == InputId + 1

Floats(s) == [k \in 1..Len(s) |-> Float(s[k])]

(***************************************************************************)
(* C1: for every series of length N and every width >= 0,                  *)
(* remove_irregularities returns a sequence of the same length whose       *)
(* element i is the mean of the ORIGINAL values at the indices             *)
(* max(0, i-width) .. min(N, i+width+1)-1; smoothing [1,2,3,4,5] with      *)
(* width 1 gives [1.5, 2, 3, 4, 4.5].                                      *)
(***************************************************************************)
C1_SmoothIsClippedWindowMean ==
    (call.op = "remove_irregularities" /\ call.width >= 0) =>
        /\ call.status = "ok"
        /\ Len(Result) = Len(call.arg)
        /\ \A i \in 0..(Len(call.arg) - 1) :
             At(Result, i) = WindowMean(call.arg, i, call.width)
        /\ (call.arg = Floats(<<1, 2, 3, 4, 5>>) /\ call.width = 1) =>
             Result = <<Rat(3, 2), Float(2), Float(3), Float(4), Rat(9, 2)>>

C1_Witness ==
    /\ call.op = "remove_irregularities"
    /\ call.width = 1
    /\ call.arg = Floats(<<1, 2, 3, 4, 5>>)
    /\ Result = <<Rat(3, 2), Float(2), Float(3), Float(4), Rat(9, 2)>>

(***************************************************************************)
(* C2: for every series of length N >= 2 and every width >= 0,             *)
(* remove_trend returns a sequence of length N with                        *)
(* result[i] = series[i] - slope * i, slope being the least-squares slope  *)
(* of the smoothed series; the subtraction applies to the original series  *)
(* and the intercept is not used.                                          *)
(***************************************************************************)
C2_DetrendSubtractsSlopeOfSmoothed ==
    (call.op = "remove_trend" /\ Len(call.arg) >= 2) =>
        LET slope == OlsSlope(Smoothed(call.arg, call.width))
        IN  /\ call.status = "ok"
            /\ Len(Result) = Len(call.arg)
            /\ \A i \in 0..(Len(call.arg) - 1) :
                 At(Result, i) = FSub(At(call.arg, i), FMul(slope, Float(i)))

\* a detrending where the smoothed series differs from the original, its
\* slope differs from the original's, and the fitted line has an intercept
C2_Witness ==
    /\ call.op = "remove_trend"
    /\ call.status = "ok"
    /\ call.width >= 1
    /\ Len(call.arg) >= 3
    /\ Smoothed(call.arg, call.width) # call.arg
    /\ OlsSlope(Smoothed(call.arg, call.width)) # OlsSlope(call.arg)
    /\ OlsSlope(Smoothed(call.arg, call.width)) # Float(0)
    /\ MeanOf(call.arg) # Float(0)
    /\ Result # call.arg

(***************************************************************************)
(* The detrended series of s, as remove_trend returns it, and the sum of   *)
(* the detrended values at the indices congruent to p modulo period.       *)
(***************************************************************************)
Detrended(s, width) ==
    LET r == remove_trend(<<FloatArray(s)>>, InputId, width)
    IN  r.heap[r.ret].data

PhaseSum(d, p, period) ==
    RefSum([j \in {k \in 0..(Len(d) - 1) : k % period = p} |-> At(d, j)],
           {k \in 0..(Len(d) - 1) : k % period = p})

\* the period a call of is_seasonal asks for: the one passed, or the default
RequestedPeriod == IF call.period = <<>> THEN Months ELSE call.period[1]

C4_DominantIsFirstMaximum ==
    /\ np_argmax(FloatArray(Floats(<<5, 7, 7, 3>>))) = 1
    /\ (call.op = "is_seasonal" /\ call.status = "ok") =>
         /\ call.index_of \in 0..(Len(Result) - 1)
         /\ Len(Result) = Months
         /\ \A p \in 0..(Months - 1) :
              ~FLess(At(Result, call.index_of), At(Result, p))
         /\ \A p \in 0..(call.index_of - 1) :
              FLess(At(Result, p), At(Result, call.index_of))

\* a tie for the maximum whose first index is not 0
C4_Witness ==
    /\ call.op = "is_seasonal"
    /\ call.status = "ok"
    /\ call.index_of >= 1
    /\ \E p \in (call.index_of + 1)..(Months - 1) :
         At(Result, p) = At(Result, call.index_of)

(***************************************************************************)
(* C5, as claimed: is_seasonal on [0,10,0,10,0,10,0,10] with width 0 and   *)
(* period 2 smooths to the identity, fits a slope of 0, leaves the         *)
(* detrended series equal to the original, and returns buckets [0, 40]     *)
(* with index 1.                                                           *)
(* Refuted: the fitted slope is 10/21, and no period can be passed.        *)
(***************************************************************************)
EndToEnd == Floats(<<0, 10, 0, 10, 0, 10, 0, 10>>)

C5_EndToEndAsClaimed ==
    (call.op = "is_seasonal" /\ call.arg = EndToEnd /\ call.width = 0
        /\ call.period \in {<<>>, <<2>>}) =>
        /\ call.status = "ok"
        /\ AsFloats(heap[SmoothedId]) = EndToEnd
        /\ perform_least_squares(heap[SmoothedId])[1] = Float(0)
        /\ Detrended(call.arg, call.width) = EndToEnd
        /\ Result = Floats(<<0, 40>>)
        /\ call.index_of = 1

(***************************************************************************)
(* C5, amended: is_seasonal([0,10,0,10,0,10,0,10], width 0), the period    *)
(* being fixed at 12, smooths to the identity, fits a slope of 10/21, so   *)
(* that detrended[i] = series[i] - 10*i/21, and returns the 12 buckets     *)
(* [0, 200/21, -20/21, 60/7, -40/21, 160/21, -20/7, 20/3, 0, 0, 0, 0]      *)
(* with index 1; the same call with period 2 fails with TypeError.         *)
(***************************************************************************)
C5_EndToEnd ==
    (call.op = "is_seasonal" /\ call.arg = EndToEnd /\ call.width = 0) =>
        IF call.period = <<>>
        THEN /\ call.status = "ok"
             /\ AsFloats(heap[SmoothedId]) = EndToEnd
             /\ perform_least_squares(heap[SmoothedId])[1] = Rat(10, 21)
             /\ \A i \in 0..7 :
                  At(Detrended(call.arg, 0), i)
                     = FSub(At(EndToEnd, i), Rat(10 * i, 21))
             /\ Result = <<Float(0), Rat(200, 21), Rat(-20, 21), Rat(60, 7),
                           Rat(-40, 21), Rat(160, 21), Rat(-20, 7), Rat(20, 3),
                           Float(0), Float(0), Float(0), Float(0)>>
             /\ call.index_of = 1
        ELSE call.status = "TypeError"

C5_Witness ==
    /\ call.op = "is_seasonal"
    /\ call.arg = EndToEnd
    /\ call.width = 0
    /\ call.status = "ok"
    /\ At(Result, 1) = Rat(200, 21)
    /\ call.index_of = 1

(***************************************************************************)
(* C6: for every exactly linear input values[i] = b + m*i, N >= 2,         *)
(* perform_least_squares returns (m, b); a constant input gives slope 0    *)
(* and intercept values[0].                                                *)
(***************************************************************************)
C6_FitExactOnLine ==
    (call.op = "perform_least_squares" /\ IsLinear(call.arg)) =>
        /\ call.status = "ok"
        /\ call.m = FSub(At(call.arg, 1), At(call.arg, 0))
        /\ call.b = At(call.arg, 0)
        /\ (\A i \in 0..(Len(call.arg) - 1) : At(call.arg, i) = At(call.arg, 0))
              => call.m = Float(0)

\* a line of at least three points with a slope and an intercept
C6_Witness ==
    /\ call.op = "perform_least_squares"
    /\ IsLinear(call.arg)
    /\ Len(call.arg) >= 3
    /\ call.m = FSub(At(call.arg, 1), At(call.arg, 0))
    /\ call.m # Float(0)
    /\ call.b # Float(0)

(***************************************************************************)
(* C7: for every exactly linear series (N >= 2) and width 0, the           *)
(* least-squares slope of the detrended series is 0: the detrended series  *)
(* is the constant baseline series[0].                                     *)
(***************************************************************************)
C7_DetrendRemovesSlope ==
    (call.op = "remove_trend" /\ call.width = 0 /\ IsLinear(call.arg)) =>
        /\ call.status = "ok"
        /\ perform_least_squares(heap[call.ret])[1] = Float(0)
        /\ \A i \in 0..(Len(call.arg) - 1) : At(Result, i) = At(call.arg, 0)

\* the ramp 0 .. 9, detrended to zeros
C7_Witness ==
    /\ call.op = "remove_trend"
    /\ call.width = 0
    /\ call.arg = Floats([k \in 1..10 |-> k - 1])
    /\ Result = Floats([k \in 1..10 |-> 0])

(***************************************************************************)
(* C8: remove_irregularities called with width < 0 fails with              *)
(* InvalidArgument before any element is computed, and returns no result.  *)
(* The code does not check the width: it returns an array of means of      *)
(* empty (or wrapped-around) slices.                                       *)
(***************************************************************************)
C8_NegativeWidthRejected ==
    (call.op = "remove_irregularities" /\ call.width < 0) =>
        /\ call.status = "InvalidArgument"
        /\ call.ret = 0

C10_Frame ==
    /\ heap'[InputId] = heap[InputId]
    /\ (call'.op # "none" /\ call'.ret # 0) =>
         /\ call'.ret \in (Len(heap) + 1)..Len(heap')
         /\ call'.op \in {"remove_trend", "is_seasonal"} => call'.ret # SmoothedId

C10_InputUntouchedResultFresh == [][C10_Frame]_vars

\* a float64 series, detrended into an array with other values
C10_Witness ==
    /\ call.op = "remove_trend"
    /\ call.width >= 1
    /\ heap[InputId].dtype = "float64"
    /\ AsFloats(heap[InputId]) = call.arg
    /\ Result # call.arg
    /\ heap[SmoothedId].data # call.arg

=============================================================================
